---- MODULE Spec2Model ----
(***************************************************************************)
(* Model of xtask/src/codegen/aya_bpf.rs: the codegen driver, the          *)
(* RewriteBpfHelpers syntax-tree visitor and gen_probe_read_getter.        *)
(*                                                                         *)
(* Source text is modelled as a sequence of one-character strings, so that *)
(* str::replace, str::contains and str::starts_with are computed character *)
(* by character as the code computes them.                                 *)
(***************************************************************************)
EXTENDS Integers, Sequences, FiniteSets, TLC

VARIABLES
    pc,        \* position of codegen (the statement about to run)
    result,    \* "running" | "ok" | "err" | "panic": how codegen ended
    orig,      \* the tree as parsed from the generator's output (never changes)
    tree,      \* the tree being rewritten in place: syn::File.items
    path,      \* the visitor's position: child indices from the root
    helpers,   \* RewriteBpfHelpers.helpers : Vec<String>
    disk,      \* the three artifacts under bpf/aya-bpf/src/bpf/generated
    fmtLog,    \* rustfmt invocations so far: <<[file, exit]>>
    genExit,   \* exit status of the binding generator (-1: not run)
    hidx,      \* index of the `for helper in &tx.helpers` loop
    gpc,       \* position of the getter scenario
    getter,    \* the Getter handed to gen_probe_read_getter
    method,    \* the method gen_probe_read_getter synthesized
    readRes,   \* outcome of bpf_probe_read inside the synthesized method
    ret        \* value the synthesized method returned

vars == <<pc, result, orig, tree, path, helpers, disk, fmtLog, genExit, hidx,
          gpc, getter, method, readRes, ret>>

rewriterVars == <<pc, result, orig, tree, path, helpers>>
driverVars == <<disk, fmtLog, genExit, hidx>>
getterVars == <<gpc, getter, method, readRes, ret>>

----------------------------------------------------------------------------
(* Bounds of the model.                                                    *)

\* longest item sequence of the parsed file
MaxItems == 2

\* largest value a guarded read returns (0 is the null pointer)
MaxValue == 2

----------------------------------------------------------------------------
(* Text: literals of the source and of the token-stream rendering.         *)

c_bpf_ == <<"b", "p", "f", "_">>
c_Option == <<"O", "p", "t", "i", "o", "n">>
c_printk == <<"p", "r", "i", "n", "t", "k">>
c_fn_open == <<"f", "n", " ", "(">>
c_fn_sp == <<"f", "n", " ">>
c_sp_open == <<" ", "(">>
c_hdr == <<"#", " ", "[", "i", "n", "l", "i", "n", "e", " ", "(", "a", "l", "w", "a", "y", "s", ")", "]", " ", "p", "u", "b", " ">>
c_abi == <<"u", "n", "s", "a", "f", "e", " ", "e", "x", "t", "e", "r", "n", " ", "\"", "C", "\"", " ">>
c_let == <<"{", " ", "l", "e", "t", " ", "f", " ", ":", " ">>
c_transmute == <<" ", "=", " ", ":", ":", " ", "c", "o", "r", "e", " ", ":", ":", " ", "m", "e", "m", " ", ":", ":", " ", "t", "r", "a", "n", "s", "m", "u", "t", "e", " ", "(">>
c_usize == <<"u", "s", "i", "z", "e">>
c_call == <<")", " ", ";", " ", "f", " ", "(">>
c_end == <<")", " ", "}">>
c_copen == <<"/", "*", " ">>
c_cclose == <<" ", "*", "/">>
c_arrow == <<" ", "-", ">", " ">>
c_colon == <<" ", ":", " ">>
c_comma == <<" ", ",", " ">>
c_lt == <<" ", "<", " ">>
c_gt == <<" ", ">">>
c_const == <<"*", " ", "c", "o", "n", "s", "t", " ">>
c_close == <<")">>

\* identifiers of the input declarations
c_bpf_foo == <<"b", "p", "f", "_", "f", "o", "o">>
c_bpf_trace_printk == <<"b", "p", "f", "_", "t", "r", "a", "c", "e", "_", "p", "r", "i", "n", "t", "k">>
c_bpf_log == <<"b", "p", "f", "_", "l", "o", "g">>
c_bpf_cb == <<"b", "p", "f", "_", "c", "b">>
c_bar_baz == <<"b", "a", "r", "_", "b", "a", "z">>
c_bpf_cnt == <<"b", "p", "f", "_", "c", "n", "t">>
c_foo_opt == <<"f", "o", "o", "_", "o", "p", "t">>
c_bpf_Printk == <<"b", "p", "f", "_", "P", "r", "i", "n", "t", "k">>
c_bpf_ptr == <<"b", "p", "f", "_", "p", "t", "r">>
c_bpf_nogen == <<"b", "p", "f", "_", "n", "o", "g", "e", "n">>
c_bpf_empty == <<"b", "p", "f", "_", "e", "m", "p", "t", "y">>
c_bpf_nonfn == <<"b", "p", "f", "_", "n", "o", "n", "f", "n">>
c_bpf_unnamed == <<"b", "p", "f", "_", "u", "n", "n", "a", "m", "e", "d">>
c_i32 == <<"i", "3", "2">>
c_a == <<"a">>
c_x == <<"x">>
c_cb == <<"c", "b">>
c_fmt == <<"f", "m", "t">>
c_printk_arg == <<"p", "r", "i", "n", "t", "k", "_", "a", "r", "g">>

DigitChar == <<"0", "1", "2", "3", "4", "5", "6", "7", "8", "9">>

----------------------------------------------------------------------------
(* Text: the string operations the code uses.                              *)

\* whether pattern p occurs in t at index i
MatchAt(t, p, i) ==
    /\ i + Len(p) - 1 <= Len(t)
    /\ \A j \in 1..Len(p) : t[i + j - 1] = p[j]

\* str::starts_with
starts_with(t, p) == MatchAt(t, p, 1)

\* str::ends_with
ends_with(t, p) == Len(p) <= Len(t) /\ MatchAt(t, p, Len(t) - Len(p) + 1)

\* str::contains
contains(t, p) == \E i \in 1..(Len(t) - Len(p) + 1) : MatchAt(t, p, i)

\* str::replace: every non-overlapping match, left to right, the inserted
\* text never rescanned
RECURSIVE ReplaceFrom(_, _, _, _)
ReplaceFrom(t, from, to, i) ==
    IF i > Len(t) THEN <<>>
    ELSE IF MatchAt(t, from, i) THEN to \o ReplaceFrom(t, from, to, i + Len(from))
    ELSE <<t[i]>> \o ReplaceFrom(t, from, to, i + 1)

replace(t, from, to) == ReplaceFrom(t, from, to, 1)

\* concatenation of the texts of ts with sep between them
RECURSIVE Join(_, _)
Join(ts, sep) ==
    IF Len(ts) = 0 THEN <<>>
    ELSE IF Len(ts) = 1 THEN ts[1]
    ELSE ts[1] \o sep \o Join(Tail(ts), sep)

\* usize::to_string, decimal
RECURSIVE Digits(_)
Digits(n) ==
    IF n < 10 THEN <<DigitChar[n + 1]>>
    ELSE Digits(n \div 10) \o <<DigitChar[(n % 10) + 1]>>

\* number of (possibly overlapping) occurrences of p in t
Occurrences(t, p) == Cardinality({i \in 1..(Len(t) - Len(p) + 1) : MatchAt(t, p, i)})

----------------------------------------------------------------------------
(* syn types, as far as the visitor inspects and renders them.             *)

\* Type::Path with one segment `name` and PathArguments ak ("None", "Angle"
\* for AngleBracketed, "Paren" for Parenthesized) holding args
TyPath(name, ak, args) ==
    [tk |-> "Path", name |-> name, ak |-> ak, args |-> args,
     abi |-> FALSE, inputs |-> <<>>, output |-> <<>>, elem |-> <<>>]

\* Type::Ptr, `*const elem`
TyPtr(elem) ==
    [tk |-> "Ptr", name |-> <<>>, ak |-> "None", args |-> <<>>,
     abi |-> FALSE, inputs |-> <<>>, output |-> <<>>, elem |-> <<elem>>]

\* Type::BareFn; abi: whether it is `unsafe extern "C"`; output: <<>> or <<type>>
TyBareFn(abi, inputs, output) ==
    [tk |-> "BareFn", name |-> <<>>, ak |-> "None", args |-> <<>>,
     abi |-> abi, inputs |-> inputs, output |-> output, elem |-> <<>>]

\* GenericArgument::Type
GType(t) == [gk |-> "Type", ty |-> t]

\* BareFnArg; name is Option<(Ident, Colon)>: <<>> or <<ident>>
NamedArg(name, t) == [name |-> <<name>>, ty |-> t]
UnnamedArg(t) == [name |-> <<>>, ty |-> t]

\* ToTokens followed by TokenStream::to_string: tokens separated by one
\* space, a parenthesised group rendered as "(" tokens ")"
RECURSIVE RenderType(_)
RenderArg(a) ==
    IF a.name = <<>> THEN RenderType(a.ty)
    ELSE a.name[1] \o c_colon \o RenderType(a.ty)

RenderGeneric(g) == RenderType(g.ty)

RenderType(t) ==
    CASE t.tk = "Path" ->
           t.name \o
           (IF t.ak = "Angle"
            THEN c_lt \o Join([i \in 1..Len(t.args) |-> RenderGeneric(t.args[i])], c_comma) \o c_gt
            ELSE <<>>)
      [] t.tk = "Ptr" -> c_const \o RenderType(t.elem[1])
      [] t.tk = "BareFn" ->
           (IF t.abi THEN c_abi ELSE <<>>) \o c_fn_open \o
           Join([i \in 1..Len(t.inputs) |-> RenderArg(t.inputs[i])], c_comma) \o c_close \o
           (IF t.output = <<>> THEN <<>> ELSE c_arrow \o RenderType(t.output[1]))

----------------------------------------------------------------------------
(* RewriteBpfHelpers::visit_foreign_item_static_mut, as a function of the  *)
(* declaration and of the helpers collected so far.                        *)

\* the filter without its test of the identifier
MatchesFilter_type_only(s) ==
    /\ s.ty[1].tk = "Path"
    /\ s.ty[1].name = c_Option

\* the filter on the declaration: a path type whose last segment is
\* `Option`, and an identifier starting with `bpf_`
MatchesFilter(s) ==
    /\ s.ty[1].tk = "Path"
    /\ starts_with(s.ident, c_bpf_)
    /\ s.ty[1].name = c_Option

\* `let fn_ty = match &last.arguments`: <<the first generic argument>>, or
\* <<>> where the code panics (no angle brackets, or none inside them)
fn_ty_of(last) ==
    IF last.ak = "Angle" /\ Len(last.args) > 0 THEN <<last.args[1]>> ELSE <<>>

\* the signature: `#[inline(always)] pub #fn_ty` rendered, then the name
\* put in by a textual replace
ty_s_of(fn_ty, ident_str) ==
    replace(c_hdr \o RenderGeneric(fn_ty), c_fn_open, c_fn_sp \o ident_str \o c_sp_open)

\* the ordinal counted from zero
call_idx_zero_based(hs) == Len(hs)

\* the ordinal counting only the fragments left as live code
call_idx_live(hs) == Cardinality({i \in 1..Len(hs) : ~starts_with(hs[i], c_copen)}) + 1

call_idx_of(hs) == Len(hs) + 1

\* parameters without a name skipped instead of unwrapped
args_of_lenient(fn_ty) ==
    IF fn_ty.gk = "Type" /\ fn_ty.ty.tk = "BareFn"
    THEN <<[i \in 1..Len(fn_ty.ty.inputs) |->
              IF fn_ty.ty.inputs[i].name = <<>> THEN <<"_">> ELSE fn_ty.ty.inputs[i].name[1]]>>
    ELSE <<>>

\* `let args = match fn_ty`: <<the parameter names>>, or <<>> where the code
\* panics (not a bare function type, or a parameter without a name)
args_of(fn_ty) ==
    IF /\ fn_ty.gk = "Type"
       /\ fn_ty.ty.tk = "BareFn"
       /\ \A i \in 1..Len(fn_ty.ty.inputs) : fn_ty.ty.inputs[i].name # <<>>
    THEN <<[i \in 1..Len(fn_ty.ty.inputs) |-> fn_ty.ty.inputs[i].name[1]]>>
    ELSE <<>>

\* `{ let f: #fn_ty = ::core::mem::transmute(#call_idx); f(#args) }` rendered
body_of(fn_ty, call_idx, args) ==
    c_let \o RenderGeneric(fn_ty) \o c_transmute \o Digits(call_idx) \o c_usize \o
    c_call \o Join(args, c_comma) \o c_end

\* the test made on the function's name only
is_printk_fn_name(helper) == contains(helper, c_printk \o c_sp_open)

\* `helper.contains("printk")`
is_printk(helper) == contains(helper, c_printk)

\* the fragment pushed for a declaration that passed every match
helper_of(fn_ty, ident_str, hs, args) ==
    LET text == ty_s_of(fn_ty, ident_str) \o body_of(fn_ty, call_idx_of(hs), args)
    IN  IF is_printk(text) THEN c_copen \o text \o c_cclose ELSE text

\* the whole handler: whether it panicked, and the helpers after it
visit_static(s, hs) ==
    IF ~MatchesFilter(s) THEN [panic |-> FALSE, helpers |-> hs]
    ELSE LET fn_ty == fn_ty_of(s.ty[1])
         IN  IF fn_ty = <<>> THEN [panic |-> TRUE, helpers |-> hs]
             ELSE LET args == args_of(fn_ty[1])
                  IN  IF args = <<>> THEN [panic |-> TRUE, helpers |-> hs]
                      ELSE [panic |-> FALSE,
                            helpers |-> Append(hs, helper_of(fn_ty[1], s.ident, hs, args[1]))]

----------------------------------------------------------------------------
(* The input declarations.                                                 *)

t_i32 == TyPath(c_i32, "None", <<>>)
t_fn_a == TyBareFn(FALSE, <<NamedArg(c_a, t_i32)>>, <<t_i32>>)
t_fn_fmt == TyBareFn(TRUE, <<NamedArg(c_fmt, t_i32), NamedArg(c_a, t_i32)>>, <<t_i32>>)
t_fn_printk_arg == TyBareFn(FALSE, <<NamedArg(c_printk_arg, t_i32)>>, <<>>)
t_fn_x == TyBareFn(FALSE, <<NamedArg(c_x, t_i32)>>, <<t_i32>>)
t_fn_cb == TyBareFn(FALSE, <<NamedArg(c_cb, t_fn_x)>>, <<t_i32>>)
t_fn_unnamed == TyBareFn(FALSE, <<UnnamedArg(t_i32)>>, <<t_i32>>)
OptionOf(t) == TyPath(c_Option, "Angle", <<GType(t)>>)

\* ForeignItemStatic
Static(ident, t) == [kind |-> "Static", ident |-> ident, ty |-> <<t>>, items |-> <<>>]

s_foo == Static(c_bpf_foo, OptionOf(t_fn_a))
s_printk == Static(c_bpf_trace_printk, OptionOf(t_fn_fmt))
s_log == Static(c_bpf_log, OptionOf(t_fn_printk_arg))
s_cb == Static(c_bpf_cb, OptionOf(t_fn_cb))
s_Printk == Static(c_bpf_Printk, OptionOf(t_fn_a))
s_bar == Static(c_bar_baz, t_i32)
s_cnt == Static(c_bpf_cnt, t_i32)
s_opt == Static(c_foo_opt, OptionOf(t_fn_a))
s_ptr == Static(c_bpf_ptr, TyPtr(t_i32))
s_nogen == Static(c_bpf_nogen, TyPath(c_Option, "None", <<>>))
s_empty == Static(c_bpf_empty, TyPath(c_Option, "Angle", <<>>))
s_nonfn == Static(c_bpf_nonfn, OptionOf(t_i32))
s_unnamed == Static(c_bpf_unnamed, OptionOf(t_fn_unnamed))

----------------------------------------------------------------------------
(* The syntax tree: syn::File.items, each item with its nested items.      *)

\* Item::ForeignMod holding ForeignItemStatic declarations
ForeignMod(statics) == [kind |-> "ForeignMod", ident |-> <<>>, ty |-> <<>>, items |-> statics]

\* Item::Mod with inline content
Mod(items) == [kind |-> "Mod", ident |-> <<>>, ty |-> <<>>, items |-> items]

\* Item::Struct: an item the visitor has no business with
Struct == [kind |-> "Struct", ident |-> <<>>, ty |-> <<>>, items |-> <<>>]

\* Item::Static: a static declared outside any foreign block
ItemStatic(ident, t) == [kind |-> "ItemStatic", ident |-> ident, ty |-> <<t>>, items |-> <<>>]

\* Item::Verbatim(TokenStream::new())
Verbatim == [kind |-> "Verbatim", ident |-> <<>>, ty |-> <<>>, items |-> <<>>]

Front(p) == SubSeq(p, 1, Len(p) - 1)

\* the node at path p
RECURSIVE NodeAt(_, _)
NodeAt(items, p) ==
    IF Len(p) = 1 THEN items[p[1]] ELSE NodeAt(items[p[1]].items, Tail(p))

\* the item sequence that holds the node at path p
Siblings(items, p) == IF Len(p) = 1 THEN items ELSE NodeAt(items, Front(p)).items

\* `*item = new` at path p
RECURSIVE SetAt(_, _, _)
SetAt(items, p, new) ==
    [items EXCEPT ![p[1]] =
        IF Len(p) = 1 THEN new
        ELSE [@ EXCEPT !.items = SetAt(@, Tail(p), new)]]

\* the path of the next sibling
Advance(p) == [p EXCEPT ![Len(p)] = @ + 1]

\* the visitor has walked past the last item of the sequence it is in
AtEnd == path[Len(path)] > Len(Siblings(tree, path))

\* only a block that holds declarations
IsForeignMod_nonempty(item) == item.kind = "ForeignMod" /\ item.items # <<>>

\* `if let Item::ForeignMod(_) = item`
IsForeignMod(item) == item.kind = "ForeignMod"

----------------------------------------------------------------------------
(* The input trees.                                                        *)

SeqsUpTo(S, n) == UNION {[1..k -> S] : k \in 0..n}

\* foreign blocks of the rewriter scenario
BlocksRewrite ==
    {<<>>} \cup
    {<<s>> : s \in {s_foo, s_printk, s_log, s_cb, s_Printk, s_bar, s_cnt, s_opt, s_ptr, s_nogen}} \cup
    {<<s_foo, s_bar>>, <<s_bar, s_foo>>, <<s_printk, s_foo>>, <<s_cnt, s_log, s_foo>>}

LeafRewrite ==
    {ForeignMod(b) : b \in BlocksRewrite} \cup {Struct, ItemStatic(c_bar_baz, t_i32)}

ItemsRewrite ==
    LeafRewrite \cup
    {Mod(<<>>), Mod(<<ForeignMod(<<>>)>>), Mod(<<ForeignMod(<<s_foo>>)>>),
     Mod(<<ForeignMod(<<s_printk>>)>>), Mod(<<Struct, ForeignMod(<<s_bar>>)>>),
     Mod(<<ForeignMod(<<s_foo>>), Struct>>),
     Mod(<<Mod(<<ForeignMod(<<s_foo, s_bar>>)>>), ForeignMod(<<s_cb>>)>>)}

TreesRewrite == SeqsUpTo(ItemsRewrite, MaxItems)

\* foreign blocks of the driver scenario
BlocksDriver ==
    {<<>>, <<s_foo>>, <<s_printk>>, <<s_bar>>, <<s_nogen>>, <<s_empty>>, <<s_nonfn>>,
     <<s_unnamed>>, <<s_foo, s_nonfn>>, <<s_unnamed, s_foo>>, <<s_foo, s_foo>>}

ItemsDriver ==
    {ForeignMod(b) : b \in BlocksDriver} \cup
    {Struct, Mod(<<ForeignMod(<<s_foo>>)>>), Mod(<<ForeignMod(<<s_nogen>>), Struct>>)}

TreesDriver == SeqsUpTo(ItemsDriver, MaxItems)

----------------------------------------------------------------------------
(* codegen: the driver.                                                    *)

Artifacts == {"bindings", "helpers", "getters"}

\* the statements of codegen, in program order
Stages ==
    <<"bindgen", "parse", "visit",
      "create_bindings", "write_bindings", "fmt_bindings",
      "create_helpers", "write_helpers_use", "write_helper", "fmt_helpers",
      "create_getters", "write_getters_use", "write_getters", "fmt_getters",
      "return">>

StageIndex(p) == CHOOSE i \in 1..Len(Stages) : Stages[i] = p

\* the statement after p
NextPc(p) == Stages[StageIndex(p) + 1]

\* the file a statement works on
ArtifactOf(p) ==
    CASE p \in {"create_bindings", "write_bindings", "fmt_bindings"} -> "bindings"
      [] p \in {"create_helpers", "write_helpers_use", "write_helper", "fmt_helpers"} -> "helpers"
      [] p \in {"create_getters", "write_getters_use", "write_getters", "fmt_getters"} -> "getters"

\* the error dropped
Propagate_ignore(ok, next) == [pc |-> next, result |-> "running"]

\* the `?` operator: go on when the call returned Ok, return the error otherwise
Propagate(ok, next) ==
    IF ok THEN [pc |-> next, result |-> "running"]
    ELSE [pc |-> pc, result |-> "err"]

Running(p) == pc = p /\ result = "running"

\* lines 34-45: run the generator (output()?), decode its standard output
\* (from_utf8(..)?), and return an error when its exit status is not zero
codegen_bindgen ==
    /\ Running("bindgen")
    /\ \E spawned \in BOOLEAN, utf8 \in BOOLEAN, code \in {0, 1} :
          LET r == Propagate(spawned /\ utf8 /\ code = 0, NextPc(pc))
          IN  /\ genExit' = IF spawned THEN code ELSE -1
              /\ pc' = r.pc
              /\ result' = r.result
    /\ UNCHANGED <<orig, tree, path, helpers, disk, fmtLog, hidx>>
    /\ UNCHANGED getterVars

\* lines 48-52: parse_str(..).unwrap(), and the empty RewriteBpfHelpers
codegen_parse ==
    /\ Running("parse")
    /\ \E parsed \in BOOLEAN :
          IF parsed
          THEN pc' = NextPc(pc) /\ result' = "running"
          ELSE pc' = pc /\ result' = "panic"
    /\ UNCHANGED <<orig, tree, path, helpers, disk, fmtLog, genExit, hidx>>
    /\ UNCHANGED getterVars

\* File::create(&filename)?
codegen_create ==
    /\ result = "running"
    /\ pc \in {"create_bindings", "create_helpers", "create_getters"}
    /\ \E ok \in BOOLEAN :
          LET r == Propagate(ok, NextPc(pc))
          IN  /\ pc' = r.pc
              /\ result' = r.result
              /\ disk' = IF ok THEN [disk EXCEPT ![ArtifactOf(pc)] = "created"] ELSE disk
    /\ UNCHANGED <<orig, tree, path, helpers, fmtLog, genExit, hidx>>
    /\ UNCHANGED getterVars

\* write!(file, ..)? : the one write of bindings.rs, the `use` line of
\* helpers.rs and of getters.rs, the getters themselves
codegen_write ==
    /\ result = "running"
    /\ pc \in {"write_bindings", "write_helpers_use", "write_getters_use", "write_getters"}
    /\ \E ok \in BOOLEAN :
          LET last == \/ pc \in {"write_bindings", "write_getters"}
                      \/ pc = "write_helpers_use" /\ Len(helpers) = 0
              next == IF pc = "write_helpers_use" /\ Len(helpers) = 0
                      THEN "fmt_helpers" ELSE NextPc(pc)
              r == Propagate(ok, next)
          IN  /\ pc' = r.pc
              /\ result' = r.result
              /\ disk' = [disk EXCEPT ![ArtifactOf(pc)] =
                            IF ok /\ last THEN "written" ELSE "partial"]
    /\ hidx' = IF pc = "write_helpers_use" THEN 1 ELSE hidx
    /\ UNCHANGED <<orig, tree, path, helpers, fmtLog, genExit>>
    /\ UNCHANGED getterVars

\* file.write(helper.as_bytes())? : one turn of the loop over tx.helpers;
\* Write::write may write only a part of the buffer and still return Ok
codegen_write_helper ==
    /\ Running("write_helper")
    /\ hidx <= Len(helpers)
    /\ \E out \in {"ok", "short", "fail"} :
          LET r == Propagate(out # "fail", IF hidx = Len(helpers) THEN NextPc(pc) ELSE pc)
              short == out = "short" \/ disk["helpers"] = "partial_short"
          IN  /\ pc' = r.pc
              /\ result' = r.result
              /\ hidx' = IF out = "fail" THEN hidx ELSE hidx + 1
              /\ disk' = [disk EXCEPT !["helpers"] =
                            IF out = "fail" THEN @
                            ELSE IF hidx = Len(helpers)
                                 THEN (IF short THEN "written_short" ELSE "written")
                                 ELSE (IF short THEN "partial_short" ELSE "partial")]
    /\ UNCHANGED <<orig, tree, path, helpers, fmtLog, genExit>>
    /\ UNCHANGED getterVars

\* Command::new("rustfmt").arg(filename).status()? : only a failure to run
\* the formatter is an error, the exit status is dropped; after the third
\* one codegen returns Ok(())
codegen_rustfmt ==
    /\ result = "running"
    /\ pc \in {"fmt_bindings", "fmt_helpers", "fmt_getters"}
    /\ \E spawned \in BOOLEAN, code \in {0, 1} :
          LET r == Propagate(spawned, NextPc(pc))
          IN  /\ pc' = r.pc
              /\ result' = IF r.pc = "return" THEN "ok" ELSE r.result
              /\ fmtLog' = IF spawned
                           THEN Append(fmtLog, [file |-> ArtifactOf(pc), exit |-> code])
                           ELSE fmtLog
    /\ UNCHANGED <<orig, tree, path, helpers, disk, genExit, hidx>>
    /\ UNCHANGED getterVars

----------------------------------------------------------------------------
(* RewriteBpfHelpers: the traversal started by tx.visit_file_mut.          *)

\* visit_item_mut on an item with nested items: line 118 walks into it
visit_item_mut_enter ==
    /\ Running("visit")
    /\ ~AtEnd
    /\ NodeAt(tree, path).kind \in {"ForeignMod", "Mod"}
    /\ path' = Append(path, 1)
    /\ UNCHANGED <<pc, result, orig, tree, helpers>>
    /\ UNCHANGED driverVars
    /\ UNCHANGED getterVars

\* visit_item_mut on an item without nested items: nothing to walk, and
\* line 119 does not match
visit_item_mut_leaf ==
    /\ Running("visit")
    /\ ~AtEnd
    /\ NodeAt(tree, path).kind \in {"Struct", "ItemStatic", "Verbatim"}
    /\ path' = Advance(path)
    /\ UNCHANGED <<pc, result, orig, tree, helpers>>
    /\ UNCHANGED driverVars
    /\ UNCHANGED getterVars

\* visit_foreign_item_static_mut, lines 123-166
visit_foreign_item_static_mut ==
    /\ Running("visit")
    /\ ~AtEnd
    /\ NodeAt(tree, path).kind = "Static"
    /\ LET r == visit_static(NodeAt(tree, path), helpers)
       IN  /\ helpers' = r.helpers
           /\ result' = IF r.panic THEN "panic" ELSE "running"
           /\ path' = IF r.panic THEN path ELSE Advance(path)
    /\ UNCHANGED <<pc, orig, tree>>
    /\ UNCHANGED driverVars
    /\ UNCHANGED getterVars

\* visit_item_mut after the walk of line 118 returned: lines 119-121
visit_item_mut_exit ==
    /\ Running("visit")
    /\ AtEnd
    /\ Len(path) > 1
    /\ tree' = IF IsForeignMod(NodeAt(tree, Front(path)))
               THEN SetAt(tree, Front(path), Verbatim)
               ELSE tree
    /\ path' = Advance(Front(path))
    /\ UNCHANGED <<pc, result, orig, helpers>>
    /\ UNCHANGED driverVars
    /\ UNCHANGED getterVars

\* visit_file_mut returns to codegen, line 53
visit_file_mut_return ==
    /\ Running("visit")
    /\ AtEnd
    /\ Len(path) = 1
    /\ pc' = NextPc(pc)
    /\ UNCHANGED <<result, orig, tree, path, helpers>>
    /\ UNCHANGED driverVars
    /\ UNCHANGED getterVars

----------------------------------------------------------------------------
(* gen_probe_read_getter and the method it synthesizes.                    *)

None == <<>>
Some(v) == <<v>>

\* the null check made for every type
gen_probe_read_getter_always_checked(g) ==
    [ident |-> g.ident,
     ret_ty |-> OptionOf(g.ty),
     place |-> Append(g.prefix, g.ident),
     body |-> "ok_try_then_null_check"]

\* `match ty { Type::Ptr(_) => .., _ => .. }`: the method's name, return
\* type, the place it reads and the shape of its body
gen_probe_read_getter(g) ==
    [ident |-> g.ident,
     ret_ty |-> OptionOf(g.ty),
     place |-> Append(g.prefix, g.ident),
     body |-> IF g.ty.tk = "Ptr" THEN "ok_try_then_null_check" ELSE "ok"]

\* the synthesized method run on the outcome of bpf_probe_read:
\*   let v = unsafe { .. }.ok()?; if v.is_null() { None } else { Some(v) }
\*   unsafe { .. }.ok()
call_getter(m, read) ==
    IF m.body = "ok_try_then_null_check"
    THEN IF ~read.ok THEN None
         ELSE IF read.v = 0 THEN None ELSE Some(read.v)
    ELSE IF read.ok THEN Some(read.v) ELSE None

\* the field descriptors handed in by generate_getters_for_items
Getters ==
    [ident : {c_a, c_x, c_cb},
     ty : {t_i32, TyPtr(t_i32), TyPtr(TyPtr(t_i32)), OptionOf(t_fn_a), t_fn_a},
     prefix : {<<"self">>, <<"self", "inner">>}]

\* Result<T, c_long> of the guarded read
Reads == {[ok |-> FALSE, v |-> 0]} \cup {[ok |-> TRUE, v |-> v] : v \in 0..MaxValue}

NoGetter == [ident |-> <<>>, ty |-> t_i32, prefix |-> <<>>]
NoMethod == [ident |-> <<>>, ret_ty |-> t_i32, place |-> <<>>, body |-> "none"]
NoRead == [ok |-> FALSE, v |-> 0]

\* one call of the strategy by generate_getters_for_items
getter_generate ==
    /\ gpc = "generate"
    /\ method' = gen_probe_read_getter(getter)
    /\ gpc' = "call"
    /\ UNCHANGED <<getter, readRes, ret>>
    /\ UNCHANGED rewriterVars
    /\ UNCHANGED driverVars

\* one call of the synthesized method at run time
getter_call ==
    /\ gpc = "call"
    /\ \E read \in Reads :
          /\ readRes' = read
          /\ ret' = call_getter(method, read)
    /\ gpc' = "returned"
    /\ UNCHANGED <<getter, method>>
    /\ UNCHANGED rewriterVars
    /\ UNCHANGED driverVars

----------------------------------------------------------------------------
(* Specifications.                                                         *)

NoDisk == [a \in Artifacts |-> "absent"]

GetterIdle ==
    /\ gpc = "idle"
    /\ getter = NoGetter
    /\ method = NoMethod
    /\ readRes = NoRead
    /\ ret = None

\* codegen is called
Init ==
    /\ pc = "bindgen"
    /\ result = "running"
    /\ orig \in TreesDriver
    /\ tree = orig
    /\ path = <<1>>
    /\ helpers = <<>>
    /\ disk = NoDisk
    /\ fmtLog = <<>>
    /\ genExit = -1
    /\ hidx = 0
    /\ GetterIdle

Visit ==
    \/ visit_item_mut_enter
    \/ visit_item_mut_leaf
    \/ visit_foreign_item_static_mut
    \/ visit_item_mut_exit
    \/ visit_file_mut_return

Next ==
    \/ codegen_bindgen
    \/ codegen_parse
    \/ Visit
    \/ codegen_create
    \/ codegen_write
    \/ codegen_write_helper
    \/ codegen_rustfmt

Spec == Init /\ [][Next]_vars

\* line 53: tx.visit_file_mut(&mut tree) is called on a parsed tree
InitRewrite ==
    /\ pc = "visit"
    /\ result = "running"
    /\ orig \in TreesRewrite
    /\ tree = orig
    /\ path = <<1>>
    /\ helpers = <<>>
    /\ disk = NoDisk
    /\ fmtLog = <<>>
    /\ genExit = 0
    /\ hidx = 0
    /\ GetterIdle

SpecRewrite == InitRewrite /\ [][Visit]_vars

\* gen_probe_read_getter is called on a field descriptor
InitGetter ==
    /\ pc = "create_getters"
    /\ result = "running"
    /\ orig = <<>>
    /\ tree = <<>>
    /\ path = <<1>>
    /\ helpers = <<>>
    /\ disk = [NoDisk EXCEPT !["bindings"] = "written", !["helpers"] = "written"]
    /\ fmtLog = <<[file |-> "bindings", exit |-> 0], [file |-> "helpers", exit |-> 0]>>
    /\ genExit = 0
    /\ hidx = 1
    /\ gpc = "generate"
    /\ getter \in Getters
    /\ method = NoMethod
    /\ readRes = NoRead
    /\ ret = None

NextGetter == getter_generate \/ getter_call

SpecGetter == InitGetter /\ [][NextGetter]_vars

----------------------------------------------------------------------------
(* Vocabulary of the properties.                                           *)

\* the foreign statics of a tree, in source order (depth first)
RECURSIVE StaticsOf(_)
StaticsOf(items) ==
    IF items = <<>> THEN <<>>
    ELSE (IF Head(items).kind = "Static" THEN <<Head(items)>> ELSE StaticsOf(Head(items).items))
         \o StaticsOf(Tail(items))

\* the paths of all nodes of a tree
RECURSIVE PathsOf(_)
PathsOf(items) ==
    UNION {{<<i>>} \cup {<<i>> \o q : q \in PathsOf(items[i].items)} : i \in 1..Len(items)}

\* the declaration qualifies: its name begins with bpf_ and its declared
\* type is the Option wrapper
Qualifies(s) ==
    /\ Len(s.ident) >= 4
    /\ SubSeq(s.ident, 1, 4) = c_bpf_
    /\ s.ty[1].name = c_Option

NotQualifies(s) == ~Qualifies(s)

\* the qualifying declarations of the input, in source order
Qualifying == SelectSeq(StaticsOf(orig), Qualifies)

\* the traversal has returned to codegen
Traversed == result = "running" /\ StageIndex(pc) > StageIndex("visit")

\* the fragment is enclosed in a comment
IsCommented(h) == starts_with(h, c_copen) /\ ends_with(h, c_cclose)

\* the fragment as rendered, before any comment was put around it
Uncommented(h) == IF IsCommented(h) THEN SubSeq(h, Len(c_copen) + 1, Len(h) - Len(c_cclose)) ELSE h

\* the fragment defines a function called ident
Named(h, ident) == contains(h, c_fn_sp \o ident \o c_sp_open)

\* the fragment's body transmutes the integer k
CarriesOrdinal(h, k) == contains(h, c_transmute \o Digits(k) \o c_usize \o c_close)

\* the declaration's name or signature mentions printk
MentionsPrintk(s) == contains(s.ident, c_printk) \/ contains(RenderType(s.ty[1]), c_printk)

\* a foreign block occurs somewhere in the tree
HasForeignMod(items) == \E p \in PathsOf(items) : NodeAt(items, p).kind = "ForeignMod"

\* the items of kind k, in source order
RECURSIVE ItemsOfKind(_, _)
ItemsOfKind(items, k) ==
    IF items = <<>> THEN <<>>
    ELSE (IF Head(items).kind = k THEN <<Head(items)>> ELSE <<>>)
         \o ItemsOfKind(Head(items).items, k) \o ItemsOfKind(Tail(items), k)

\* the tree with every foreign block, at any depth, replaced by an empty node
RECURSIVE Strip(_)
Strip(items) ==
    [i \in 1..Len(items) |->
        IF items[i].kind = "ForeignMod" THEN Verbatim
        ELSE [items[i] EXCEPT !.items = Strip(@)]]

\* the Option wrapper has no generic argument, or the argument is not a
\* bare function type, or a parameter of the function has no name
BadShape(s) ==
    \/ s.ty[1].ak # "Angle"
    \/ s.ty[1].args = <<>>
    \/ s.ty[1].args[1].gk # "Type"
    \/ s.ty[1].args[1].ty.tk # "BareFn"
    \/ \E i \in 1..Len(s.ty[1].args[1].ty.inputs) : s.ty[1].args[1].ty.inputs[i].name = <<>>

Written == {"written", "written_short"}

\* the formatter was run on the artifact
Formatted(a) == \E i \in 1..Len(fmtLog) : fmtLog[i].file = a

ArtifactOrder == <<"bindings", "helpers", "getters">>

Rank(a) == CHOOSE i \in 1..Len(ArtifactOrder) : ArtifactOrder[i] = a

----------------------------------------------------------------------------
(* Properties.                                                             *)

\* C1: once the traversal has returned, the helper sequence holds exactly
\* one fragment per qualifying declaration, and the k-th qualifying
\* declaration in source order is the k-th fragment, named after it and
\* carrying ordinal k and no other ordinal: the ordinals are 1..N, and are
\* a function of the tree alone.
C1_OrdinalsInSourceOrder ==
    Traversed =>
        /\ Len(helpers) = Len(Qualifying)
        /\ \A k \in 1..Len(helpers) :
              /\ Named(helpers[k], Qualifying[k].ident)
              /\ \A j \in 1..(Len(helpers) + 1) : CarriesOrdinal(helpers[k], j) <=> j = k

C1_Witness ==
    /\ Traversed
    /\ Len(helpers) = 4
    /\ orig[1].kind = "Mod"

\* C2 as stated: after the rewrite every declaration that does not qualify
\* is still in the tree, unchanged.
C2_NonQualifyingStay ==
    Traversed =>
        SelectSeq(StaticsOf(tree), NotQualifies) = SelectSeq(StaticsOf(orig), NotQualifies)

\* C2 amended: a declaration that does not qualify is never wrapped and is
\* never modified while it is in the tree, but it leaves the tree together
\* with its foreign block: after the rewrite no foreign static is left,
\* the fragments are those of the qualifying declarations only, and statics
\* declared outside foreign blocks are all still there, unchanged.
C2_NonQualifyingUnwrappedButRemoved ==
    /\ \A p \in PathsOf(tree) :
          NodeAt(tree, p).kind \in {"ForeignMod", "Static", "ItemStatic"}
              => NodeAt(tree, p) = NodeAt(orig, p)
    /\ \A k \in 1..Len(helpers) :
          k <= Len(Qualifying) /\ Named(helpers[k], Qualifying[k].ident)
    /\ Traversed =>
          /\ StaticsOf(tree) = <<>>
          /\ Len(helpers) = Len(Qualifying)
          /\ ItemsOfKind(tree, "ItemStatic") = ItemsOfKind(orig, "ItemStatic")

C2_Witness ==
    /\ Traversed
    /\ orig = <<ForeignMod(<<s_foo, s_bar>>), ItemStatic(c_bar_baz, t_i32)>>
    /\ tree = <<Verbatim, ItemStatic(c_bar_baz, t_i32)>>
    /\ Len(helpers) = 1
    /\ Named(helpers[1], c_bpf_foo)
    /\ CarriesOrdinal(helpers[1], 1)

\* C3: after the rewrite no foreign block is left at any depth, whether it
\* held a qualifying declaration or not; in every item sequence, nested
\* ones too, each foreign block is replaced in place by an empty node, the
\* sequence keeps its length and every other item is at its index: the
\* same item, identical to the original when no foreign block is nested
\* in it, and with its nested blocks replaced in the same way otherwise.
C3_ForeignBlocksReplacedInPlace ==
    Traversed =>
        /\ ~HasForeignMod(tree)
        /\ Len(tree) = Len(orig)
        /\ \A p \in PathsOf(tree) :
              LET t == NodeAt(tree, p)
                  o == NodeAt(orig, p)
              IN  /\ Len(Siblings(tree, p)) = Len(Siblings(orig, p))
                  /\ o.kind = "ForeignMod" => t = Verbatim
                  /\ o.kind # "ForeignMod" =>
                        /\ t.kind = o.kind /\ t.ident = o.ident /\ t.ty = o.ty
                        /\ Len(t.items) = Len(o.items)
                        /\ ~HasForeignMod(o.items) => t = o
        /\ tree = Strip(orig)

C3_Witness ==
    /\ Traversed
    /\ Len(orig) = 2
    /\ orig[1] = Mod(<<Struct, ForeignMod(<<s_bar>>)>>)
    /\ orig[2] = ForeignMod(<<>>)
    /\ tree = <<Mod(<<Struct, Verbatim>>), Verbatim>>

\* C4: a fragment is enclosed in a comment exactly when its rendered text,
\* signature and body, contains `printk`; the rendered text is the whole
\* of what the comment encloses.
C4_CommentedIffPrintk ==
    \A k \in 1..Len(helpers) :
        /\ IsCommented(helpers[k]) <=> contains(Uncommented(helpers[k]), c_printk)
        /\ starts_with(Uncommented(helpers[k]), c_hdr)
        /\ ends_with(Uncommented(helpers[k]), c_end)
        /\ IsCommented(helpers[k]) <=> MentionsPrintk(Qualifying[k])

C4_Witness ==
    \E i, j, k \in 1..Len(helpers) :
        /\ Named(helpers[i], c_bpf_log) /\ IsCommented(helpers[i])
        /\ Named(helpers[j], c_bpf_foo) /\ ~IsCommented(helpers[j])
        /\ Named(helpers[k], c_bpf_Printk) /\ ~IsCommented(helpers[k])

\* C5: the synthesized getter returns Some(v) exactly when the guarded read
\* succeeded with v and the field is not of pointer type or v is not null;
\* otherwise it returns None.
C5_GetterResult ==
    gpc = "returned" =>
        /\ ret \in {None} \cup {Some(v) : v \in 0..MaxValue}
        /\ \A v \in 0..MaxValue :
              ret = Some(v) <=>
                  /\ readRes.ok
                  /\ readRes.v = v
                  /\ (getter.ty.tk # "Ptr" \/ v # 0)

C5_Witness ==
    /\ gpc = "returned"
    /\ getter.ty.tk = "Ptr"
    /\ readRes = [ok |-> TRUE, v |-> 0]
    /\ ret = None

\* C6: once the generator or the formatter has exited with a non-zero
\* status, codegen has returned an error and has run no later stage.
C6_NonZeroExitAborts ==
    /\ genExit > 0 => result = "err" /\ pc = "bindgen"
    /\ \A i \in 1..Len(fmtLog) :
          fmtLog[i].exit # 0 =>
              /\ result = "err"
              /\ pc \in {"fmt_bindings", "fmt_helpers", "fmt_getters"}
              /\ ArtifactOf(pc) = fmtLog[i].file

\* C7: the visitor, on a qualifying declaration of a wrong shape, aborts the
\* run there and then: no fragment is appended, nothing else changes, no
\* step follows an abort, and in the aborted run no artifact was created
\* or formatted and the declaration's block was not yet replaced.
C7_ShapeViolationAborts ==
    /\ [](result = "panic" /\ pc = "visit" =>
              /\ disk = NoDisk
              /\ fmtLog = <<>>
              /\ NodeAt(tree, path).kind = "Static"
              /\ Qualifies(NodeAt(tree, path)) /\ BadShape(NodeAt(tree, path))
              /\ NodeAt(tree, Front(path)) = NodeAt(orig, Front(path)))
    /\ [][/\ result = "running"
          /\ (/\ pc = "visit" /\ ~AtEnd
              /\ NodeAt(tree, path).kind = "Static"
              /\ Qualifies(NodeAt(tree, path)) /\ BadShape(NodeAt(tree, path)))
             => /\ result' = "panic"
                /\ UNCHANGED <<pc, tree, path, helpers, disk, fmtLog>>]_vars

C7_Witness ==
    /\ result = "panic"
    /\ pc = "visit"
    /\ Len(helpers) = 1
    /\ NodeAt(tree, path) = s_unnamed
    /\ Len(path) = 2 /\ path[2] = 1 /\ Len(NodeAt(tree, Front(path)).items) = 2

\* C8: a declaration whose fragment the printk rule comments out has its
\* fragment in the sequence, at its position among all qualifying
\* declarations and with that ordinal, and every later qualifying
\* declaration has the ordinal of its own position, the suppressed ones
\* counted.
C8_SuppressedStillCounts ==
    Traversed =>
        \A k \in 1..Len(Qualifying) :
            MentionsPrintk(Qualifying[k]) =>
                /\ k <= Len(helpers)
                /\ IsCommented(helpers[k])
                /\ Named(helpers[k], Qualifying[k].ident)
                /\ CarriesOrdinal(helpers[k], k)
                /\ \A j \in (k + 1)..Len(Qualifying) :
                      /\ j <= Len(helpers)
                      /\ Named(helpers[j], Qualifying[j].ident)
                      /\ CarriesOrdinal(helpers[j], j)

C8_Witness ==
    /\ Traversed
    /\ Len(helpers) = 4
    /\ IsCommented(helpers[1])
    /\ ~IsCommented(helpers[2])
    /\ IsCommented(helpers[3])
    /\ CarriesOrdinal(helpers[4], 4)

\* C9: in every fragment the helper's identifier occurs exactly once, right
\* after the leading `fn` of the signature, and the function type of the
\* body's cast is the declared one.
C9_NameInsertedOnce ==
    \A k \in 1..Len(helpers) :
        LET d == Qualifying[k]
            fn_ty == d.ty[1].args[1]
        IN  /\ Occurrences(helpers[k], d.ident) = 1
            /\ starts_with(Uncommented(helpers[k]),
                           c_hdr \o (IF fn_ty.ty.abi THEN c_abi ELSE <<>>) \o
                           c_fn_sp \o d.ident \o c_sp_open)
            /\ contains(helpers[k], c_let \o RenderGeneric(fn_ty) \o c_transmute)

\* C10: the artifacts are produced in the order bindings, helpers, getters,
\* each created, written and formatted before the next is created; when
\* creating or writing one fails codegen returns the error, nothing
\* follows, the later artifacts do not exist and were not formatted, the
\* earlier ones are on disk as written and formatted.
C10_ArtifactsInOrder ==
    /\ \A a, b \in Artifacts :
          Rank(a) < Rank(b) /\ disk[b] # "absent" => disk[a] \in Written /\ Formatted(a)
    /\ \A a \in Artifacts : Formatted(a) => disk[a] \in Written
    /\ \A i \in 1..Len(fmtLog) : fmtLog[i].file = ArtifactOrder[i]
    /\ result = "err" => ~ENABLED Next
    /\ (result = "err" /\ pc \notin {"bindgen", "fmt_bindings", "fmt_helpers", "fmt_getters"}) =>
          /\ ~Formatted(ArtifactOf(pc))
          /\ disk[ArtifactOf(pc)] \notin Written
          /\ \A b \in Artifacts :
                /\ Rank(b) > Rank(ArtifactOf(pc)) => disk[b] = "absent" /\ ~Formatted(b)
                /\ Rank(b) < Rank(ArtifactOf(pc)) => disk[b] \in Written /\ Formatted(b)

C10_Witness ==
    /\ result = "err"
    /\ pc = "write_helper"
    /\ hidx = 2
    /\ disk = [bindings |-> "written", helpers |-> "partial", getters |-> "absent"]
    /\ Len(fmtLog) = 1

====
